---- MODULE Spec2Model ----
(***************************************************************************)
(* rclip: incremental index maintenance (RClip.ensure_index,               *)
(* RClip._index_files) and similarity search (RClip.search) of             *)
(* src/rclip/main.py, over a persisted vector store.                       *)
(*                                                                         *)
(* Paths are sequences of one-character strings, so that the two regular   *)
(* expressions of RClip are modelled by what they match.  The store        *)
(* (db.DB) is not part of the sources at hand: its operations follow       *)
(* section 4.3 of the specification.                                       *)
(***************************************************************************)
EXTENDS Integers, Sequences, FiniteSets, TLC

(***************************************************************************)
(* Bounds of the model.  BATCH_SIZE and DB_IMAGES_BEFORE_COMMIT are the    *)
(* class attributes of RClip (main.py:42-43, 8 and 50_000 there), scaled   *)
(* down so that flushes and periodic commits happen in a tree of a few     *)
(* files; every formula below is stated in terms of the two names.         *)
(***************************************************************************)
BATCH_SIZE == 2

DB_IMAGES_BEFORE_COMMIT == 2

\* ensure_index invocations and file system changes per behaviour, in the
\* specification of the scan alone and in the one with search.
MaxScans == 3

MaxFsChanges == 2

MaxScansSearch == 2

MaxFsChangesSearch == 1

MaxTopK == 2

\* Failed encoding calls and crashes per behaviour.
MaxFaults == 1

\* Invocations with a changed --exclude-dir setting per behaviour.
MaxConfigs == 1

(***************************************************************************)
(* Paths and the directory tree                                            *)
(***************************************************************************)
SEP == <<"/">>

Dir_r == <<"r">>

Dir_git == <<".", "g", "i", "t">>

Dir_r_git == Dir_r \o SEP \o Dir_git

Dir_r_s == Dir_r \o SEP \o <<"s">>

\* A directory that does not exist.
Dir_x == <<"x">>

Name_a == <<"a", ".", "p", "n", "g">>

Name_b == <<"b", ".", "J", "P", "G">>

Name_c == <<"c", ".", "j", "p", "e", "g">>

Name_d == <<"d", ".", "p", "n", "g">>

Name_e == <<"e", ".", "p", "n", "g">>

Name_f == <<"f", ".", "j", "p", "g">>

Name_n == <<"n", ".", "t", "x", "t">>

\* os.path.join(root, file), main.py:97
join(root, file) == root \o SEP \o file

\* The directory tree in the order os.walk yields it (top-down): each entry
\* is a directory and the file names that may exist in it.
Tree ==
    << <<Dir_r, <<Name_a, Name_b, Name_n>> >>,
       <<Dir_r_git, <<Name_e>> >>,
       <<Dir_r_s, <<Name_c, Name_d>> >>,
       <<Dir_git, <<Name_f>> >> >>

Range(s) == {s[i] : i \in 1..Len(s)}

AllPaths == UNION {{join(Tree[i][1], nm) : nm \in Range(Tree[i][2])} : i \in 1..Len(Tree)}

\* The directories ensure_index and search are called with (args.dir), in
\* the specification of the scan alone and in the one with search.
ScanDirs == {Dir_r, Dir_r_s}

SearchDirs == {Dir_r, Dir_r_s, Dir_git, Dir_x}

IsPrefix(s, t) == Len(s) <= Len(t) /\ SubSeq(t, 1, Len(s)) = s

(***************************************************************************)
(* The file system: per path, absent or a file with its metadata and the   *)
(* way reading it goes.  kind "nometa": os.path.getmtime/getsize raise;    *)
(* kind "nodecode": Image.open raises (either except branch of             *)
(* _index_files drops the file).                                           *)
(***************************************************************************)
Absent == [kind |-> "absent", modified_at |-> 0, size |-> 0]

File(k, m, s) == [kind |-> k, modified_at |-> m, size |-> s]

\* What each path may hold on disk.
FileOptions(p) ==
    IF p = join(Dir_r, Name_a) THEN {File("ok", 1, 1), File("nometa", 1, 1)}
    ELSE IF p = join(Dir_r, Name_b) THEN {File("ok", 1, 1), File("nodecode", 1, 1)}
    ELSE IF p = join(Dir_r_s, Name_c) THEN {Absent, File("ok", 2, 1)}
    ELSE IF p = join(Dir_r_s, Name_d)
        THEN {Absent, File("ok", 1, 1), File("ok", 1, 2)}
    ELSE {File("ok", 1, 1)}

\* The file systems over a sequence of paths.
RECURSIVE FsOver(_)
FsOver(ps) ==
    IF ps = << >> THEN {<< >>}
    ELSE {(Head(ps) :> f) @@ g : f \in FileOptions(Head(ps)), g \in FsOver(Tail(ps))}

(***************************************************************************)
(* The two regular expressions of RClip                                    *)
(***************************************************************************)
EXCLUDE_DIRS_DEFAULT ==
    << <<"@", "e", "a", "D", "i", "r">>,
       <<"n", "o", "d", "e", "_", "m", "o", "d", "u", "l", "e", "s">>,
       Dir_git >>

\* A user-supplied --exclude-dir list.
EXCLUDE_DIRS_USER == << <<"t", "m", "p">> >>

\* args.exclude_dir: None (the empty sequence here) or the user's list.
ExcludeArgs == {<< >>, EXCLUDE_DIRS_USER}

\* exclude_dirs or self.EXCLUDE_DIRS_DEFAULT
excluded_dirs(arg) == IF arg = << >> THEN EXCLUDE_DIRS_DEFAULT ELSE arg

\* re.compile(f'^.+\/({excluded_dirs})(\/.+)?$').match(p): a non-empty
\* prefix, a "/", one of the names, then the end or a "/" and at least one
\* more character.
exclude_dir_regex_match(arg, p) ==
    \E i \in 2..Len(p), k \in 1..Len(excluded_dirs(arg)) :
        LET nm == excluded_dirs(arg)[k]
            j == i + Len(nm)
        IN  /\ p[i] = "/"
            /\ j <= Len(p)
            /\ SubSeq(p, i + 1, j) = nm
            /\ \/ j = Len(p)
               \/ j + 2 <= Len(p) /\ p[j + 1] = "/"

\* re.I: the letters of the extensions, lowered.
Lower(c) ==
    CASE c = "J" -> "j" [] c = "P" -> "p" [] c = "E" -> "e"
      [] c = "G" -> "g" [] c = "N" -> "n" [] OTHER -> c

ImageExtensions ==
    {<<"j", "p", "g">>, <<"j", "p", "e", "g">>, <<"p", "n", "g">>}

\* IMAGE_REGEX = re.compile(r'^.+\.(jpe?g|png)$', re.I)
IMAGE_REGEX_match(name) ==
    \E ext \in ImageExtensions :
        LET n == Len(name)
            e == Len(ext)
        IN  /\ n >= e + 2
            /\ name[n - e] = "."
            /\ [i \in 1..e |-> Lower(name[n - e + i])] = ext

(***************************************************************************)
(* The vector store (db.DB), from section 4.3 of the specification.  A     *)
(* store is a function from the paths that have a record to the record.    *)
(***************************************************************************)
\* "whose path is under dir_path"
Under(dir, p) == Len(p) > Len(dir) + 1 /\ IsPrefix(dir \o SEP, p)

flag_images_in_a_dir_as_deleted(store, dir) ==
    [p \in DOMAIN store |->
        IF Under(dir, p) THEN [store[p] EXCEPT !.deleted = TRUE] ELSE store[p]]

remove_deleted_flag(store, filepath) ==
    [p \in DOMAIN store |->
        IF p = filepath THEN [store[p] EXCEPT !.deleted = FALSE] ELSE store[p]]

upsert_image(store, image) ==
    [p \in DOMAIN store \cup {image.filepath} |->
        IF p = image.filepath
        THEN [modified_at |-> image.modified_at, size |-> image.size,
              vector |-> image.vector, deleted |-> FALSE]
        ELSE store[p]]

RECURSIVE Flatten(_)
Flatten(ss) == IF ss = << >> THEN << >> ELSE Head(ss) \o Flatten(Tail(ss))

\* Every path of the tree, in a fixed order (the store's row order).
PathSeq ==
    Flatten([i \in 1..Len(Tree) |->
        [k \in 1..Len(Tree[i][2]) |-> join(Tree[i][1], Tree[i][2][k])]])

\* Rows {filepath, vector} of the non-deleted records under dir.
get_image_vectors_by_dir_path(store, dir) ==
    LET rows == SelectSeq(PathSeq,
                    LAMBDA p : p \in DOMAIN store /\ Under(dir, p) /\ ~store[p].deleted)
    IN  [i \in 1..Len(rows) |-> [filepath |-> rows[i], vector |-> store[rows[i]].vector]]

(***************************************************************************)
(* Search                                                                  *)
(***************************************************************************)
\* model.compute_similarities_to_text(features, query): (score, row) pairs
\* covering every row, by descending score.  The ranking depends on the
\* query; the rankings tried are the rotations of the row order and of its
\* reverse, and the score of the k-th pair of n is n - k.
Rankings(n) ==
    IF n = 0 THEN {<< >>} ELSE
    {[k \in 1..n |-> IF up THEN ((k + r - 1) % n) + 1 ELSE n - ((k + r - 1) % n)] :
        r \in 0..(n - 1), up \in BOOLEAN}

compute_similarities_to_text(n, ranking) ==
    [k \in 1..n |-> <<n - k, ranking[k]>>]

\* itertools.islice(it, top_k)
islice(s, top_k) == SubSeq(s, 1, IF top_k <= Len(s) THEN top_k ELSE Len(s))

\* RClip.search and RClip._get_features, main.py:127-148
search(store, arg, ranking, dir, top_k) ==
    LET rows == get_image_vectors_by_dir_path(store, dir)
        filepaths == [i \in 1..Len(rows) |-> rows[i].filepath]
        sorted_similarities == compute_similarities_to_text(Len(rows), ranking)
        filtered_similarities ==
            SelectSeq(sorted_similarities,
                      LAMBDA similarity : ~exclude_dir_regex_match(arg, filepaths[similarity[2]]))
        top_k_similarities == islice(filtered_similarities, top_k)
    IN  [i \in 1..Len(top_k_similarities) |->
            [filepath |-> filepaths[top_k_similarities[i][2]],
             score |-> top_k_similarities[i][1]]]

\* sorted_similarities of main.py:130 with the path of each row, in the
\* order the model returned them.
sorted_paths(store, ranking, dir) ==
    LET rows == get_image_vectors_by_dir_path(store, dir)
        sorted_similarities == compute_similarities_to_text(Len(rows), ranking)
    IN  [k \in 1..Len(rows) |->
            [filepath |-> rows[sorted_similarities[k][2]].filepath,
             score |-> sorted_similarities[k][1]]]

(***************************************************************************)
(* State                                                                   *)
(***************************************************************************)
VARIABLES
    fs,                 \* the file system: path -> file or Absent
    exclude_dirs,       \* args.exclude_dir of the running invocation
    db,                 \* the store as the open connection sees it
    dbc,                \* the store as committed (what survives a crash)
    pc,                 \* "idle" between invocations, "walk" and "commit" in
                        \* ensure_index, "searched" after search
    directory,          \* the argument of the running ensure_index
    walk,               \* the kept files the walk has still to yield, in order
    images_processed,   \* main.py:87
    batch,              \* main.py:88
    metas,              \* main.py:89
    result,             \* what search returned to main
    searched,           \* the directory search was called with
    top,                \* the top_k search was called with
    ranked,             \* history: the (path, score) pairs in the order the model
                        \* ranked them for the search
    scans,              \* ensure_index invocations so far
    changes,            \* file system changes so far
    faults,             \* failed encoding calls and crashes so far
    configs,            \* changes of the exclusion setting so far
    observed,           \* history: kept files the running walk has visited
    encoded,            \* history: paths passed to compute_image_features
    upserted,           \* history: paths upserted by the running scan
    unflagged,          \* history: paths un-flagged by the running scan
    enc_failed,         \* history: batches of the running scan whose encoding failed
    flushed,            \* history: the batches the running scan passed to _index_files
    commit_calls,       \* history: the periodic commits of the running scan
    pending,            \* history: paths written since the last commit
    start,              \* history: what the running scan started from
    dirty,              \* history: paths changed on disk since the last completed scan
    stable,             \* history: the last invocation was a scan that completed, and
                        \* the exclusion setting is still the one it ran with
    crashed             \* history: the last invocation was a scan that crashed, nothing
                        \* has changed since, and the store that scan (or the first of
                        \* a row of crashed scans) had started from

prog == <<db, dbc, pc, directory, walk, images_processed, batch, metas>>

run == <<observed, encoded, upserted, unflagged, enc_failed, flushed, commit_calls>>

hist == <<run, pending, start, dirty, stable, crashed>>

count == <<scans, changes, faults, configs>>

out == <<result, searched, top, ranked>>

vars == <<fs, exclude_dirs, prog, out, count, hist>>

(***************************************************************************)
(* Pure parts of the scan                                                  *)
(***************************************************************************)
Min(a, b) == IF a <= b THEN a ELSE b

\* get_image_meta, main.py:25-29 (raises for a file of kind "nometa")
get_image_meta(filepath) ==
    [modified_at |-> fs[filepath].modified_at, size |-> fs[filepath].size]

\* is_image_meta_equal, main.py:32-36
is_image_meta_equal(image, meta) ==
    \A key \in DOMAIN meta : meta[key] = image[key]

\* The image Image.open(path) yields, and so the vector the model computes
\* from it: the content of the file at that path in its present version.
compute_image_feature(path) == <<path, fs[path].modified_at, fs[path].size>>

\* The paths of a batch whose Image.open succeeds, main.py:59-67
filtered_paths(filepaths) == SelectSeq(filepaths, LAMBDA p : fs[p].kind = "ok")

\* for path, meta, vector in zip(filtered_paths, metas, features): upsert
RECURSIVE upsert_zip(_, _, _, _, _)
upsert_zip(store, paths, ms, features, i) ==
    IF i > Min(Len(paths), Min(Len(ms), Len(features))) THEN store
    ELSE upsert_zip(
            upsert_image(store, [filepath |-> paths[i],
                                 modified_at |-> ms[i].modified_at,
                                 size |-> ms[i].size,
                                 vector |-> features[i]]),
            paths, ms, features, i + 1)

\* _index_files without the return of main.py:73: a failed encoding call
\* still upserts the batch.
index_files_no_return(store, filepaths, ms, ok) ==
    LET paths == filtered_paths(filepaths)
        features == [i \in 1..Len(paths) |-> compute_image_feature(paths[i])]
    IN  upsert_zip(store, paths, ms, features, 1)

\* _index_files giving up the whole batch when one Image.open of main.py:61
\* raises.
index_files_decode_aborts(store, filepaths, ms, ok) ==
    LET paths == filtered_paths(filepaths)
        features == [i \in 1..Len(paths) |-> compute_image_feature(paths[i])]
    IN  IF ~ok \/ Len(paths) < Len(filepaths) THEN store
        ELSE upsert_zip(store, paths, ms, features, 1)

\* RClip._index_files, main.py:56-81; ok: compute_image_features returned
index_files(store, filepaths, ms, ok) ==
    LET paths == filtered_paths(filepaths)
        features == [i \in 1..Len(paths) |-> compute_image_feature(paths[i])]
    IN  IF ~ok THEN store ELSE upsert_zip(store, paths, ms, features, 1)

\* os.walk lists the directories of the tree; the files in them come and go.
DirExists(dir) == \E i \in 1..Len(Tree) : Tree[i][1] = dir

\* for root, _, files in os.walk(directory), main.py:90-95: the kept files
\* of the walk, in order.  os.walk is called without onerror, so a
\* directory that cannot be listed yields nothing and raises nothing.
Walk(dir, arg) ==
    LET roots == SelectSeq(Tree, LAMBDA e : e[1] = dir \/ Under(dir, e[1]))
        kept(e) ==
            IF exclude_dir_regex_match(arg, e[1]) THEN << >>
            ELSE LET files == SelectSeq(e[2],
                        LAMBDA f : fs[join(e[1], f)].kind # "absent" /\ IMAGE_REGEX_match(f))
                 IN  [k \in 1..Len(files) |-> join(e[1], files[k])]
    IN  Flatten([i \in 1..Len(roots) |-> kept(roots[i])])

\* The periodic commit of main.py:106 taken at the first file only.
commit_due_first_only(n) == n = 0

\* if not images_processed % self.DB_IMAGES_BEFORE_COMMIT, main.py:106
commit_due(n) == n % DB_IMAGES_BEFORE_COMMIT = 0

\* if image and is_image_meta_equal(image, meta), main.py:99 and 110
is_unchanged(store, filepath) ==
    filepath \in DOMAIN store /\ is_image_meta_equal(store[filepath], get_image_meta(filepath))

\* The flush of main.py:117 taken one file late.
batch_full_late(b) == Len(b) > BATCH_SIZE

\* if len(batch) >= self.BATCH_SIZE, main.py:117
batch_full(b) == Len(b) >= BATCH_SIZE

\* The body of the loop over the kept files, main.py:97-120, on the scan's
\* local state s = [db, dbc, images_processed, batch, metas].
loop_body(s, filepath, ok) ==
    IF fs[filepath].kind = "nometa" THEN s
    ELSE
        LET meta == get_image_meta(filepath)
            committed == IF commit_due(s.images_processed) THEN s.db ELSE s.dbc
            s1 == [s EXCEPT !.dbc = committed, !.images_processed = @ + 1]
        IN  IF is_unchanged(s.db, filepath)
            THEN [s1 EXCEPT !.db = remove_deleted_flag(s.db, filepath)]
            ELSE LET b == Append(s.batch, filepath)
                     m == Append(s.metas, meta)
                 IN  IF batch_full(b)
                     THEN [s1 EXCEPT !.db = index_files(s.db, b, m, ok),
                                     !.batch = << >>, !.metas = << >>]
                     ELSE [s1 EXCEPT !.batch = b, !.metas = m]

\* The final flush of main.py:122 never taken.
flush_due_never(b) == FALSE

\* if len(batch) != 0, main.py:122
flush_due(b) == Len(b) # 0

\* main.py:122-123
final_flush(s, ok) ==
    IF flush_due(s.batch) THEN [s EXCEPT !.db = index_files(s.db, s.batch, s.metas, ok)]
    ELSE s

\* The loop of main.py:96-120 over the kept files, every encoding call
\* returning.
RECURSIVE loop(_, _)
loop(s, files) ==
    IF files = << >> THEN s ELSE loop(loop_body(s, Head(files), TRUE), Tail(files))

\* ensure_index(dir) run from the committed store to its return with no
\* interruption, main.py:83-125: the store it leaves.
ensure_index(store, dir, arg) ==
    final_flush(loop([db |-> flag_images_in_a_dir_as_deleted(store, dir), dbc |-> store,
                      images_processed |-> 0, batch |-> << >>, metas |-> << >>],
                     Walk(dir, arg)), TRUE).db

Local == [db |-> db, dbc |-> dbc, images_processed |-> images_processed,
          batch |-> batch, metas |-> metas]

\* The paths of a flushed batch that _index_files has upserted: those whose
\* record is new or no longer flagged (every record of a stale file under
\* the scanned directory is flagged until it is upserted).
zipped_paths(filepaths, before, after) ==
    {p \in Range(filepaths) :
        p \in DOMAIN after /\ ~after[p].deleted
            /\ (p \notin DOMAIN before \/ before[p].deleted)}

(***************************************************************************)
(* History kept for the properties: the sets of the running scan stay      *)
(* until the tree, the setting or the process changes; start records, when *)
(* ensure_index is entered, the store before the flagging, whether the     *)
(* previous invocation was a completed scan of the same directory under    *)
(* the same exclusion setting (rerun), the files of its batches whose      *)
(* encoding call failed (failed),                                          *)
(* the paths changed on disk since it completed (changed), and whether the *)
(* previous invocation was instead a scan of the same directory that       *)
(* crashed, with nothing changed since and no encoding failure (recover),  *)
(* and then the store that scan had started from (base).                   *)
(***************************************************************************)
NoStart == [store |-> << >>, rerun |-> FALSE, failed |-> {}, changed |-> {},
            recover |-> FALSE, base |-> << >>]

NoCrash == [yes |-> FALSE, base |-> << >>]

(***************************************************************************)
(* Init: a new store, any content of the tree; the first invocation runs   *)
(* with a user-supplied exclusion list, later ones may drop it.            *)
(***************************************************************************)
Init ==
    /\ fs \in FsOver(PathSeq)
    /\ exclude_dirs = EXCLUDE_DIRS_USER
    /\ db = << >>
    /\ dbc = << >>
    /\ pc = "idle"
    /\ directory = << >>
    /\ walk = << >>
    /\ images_processed = 0
    /\ batch = << >>
    /\ metas = << >>
    /\ result = << >>
    /\ searched = << >>
    /\ top = 0
    /\ ranked = << >>
    /\ scans = 0
    /\ changes = 0
    /\ faults = 0
    /\ configs = 0
    /\ observed = {}
    /\ encoded = {}
    /\ upserted = {}
    /\ unflagged = {}
    /\ flushed = << >>
    /\ commit_calls = 0
    /\ enc_failed = {}
    /\ pending = {}
    /\ start = NoStart
    /\ dirty = {}
    /\ stable = FALSE
    /\ crashed = NoCrash

(***************************************************************************)
(* Actions                                                                 *)
(***************************************************************************)
\* RClip.__init__ of a new invocation with another --exclude-dir setting,
\* main.py:49-54 and 161.
Configure(arg) ==
    /\ pc = "idle"
    /\ arg # exclude_dirs
    /\ configs < MaxConfigs
    /\ configs' = configs + 1
    /\ exclude_dirs' = arg
    /\ stable' = FALSE
    /\ observed' = {}
    /\ encoded' = {}
    /\ upserted' = {}
    /\ unflagged' = {}
    /\ flushed' = << >>
    /\ commit_calls' = 0
    /\ start' = NoStart
    /\ crashed' = NoCrash
    /\ UNCHANGED <<fs, prog, out, scans, changes, faults, enc_failed, pending, dirty>>

\* The user changes, adds or removes one file between two invocations.
FsChange(p, f, max_scans, max_changes) ==
    /\ pc = "idle"
    /\ 0 < scans /\ scans < max_scans
    /\ changes < max_changes
    /\ f # fs[p]
    /\ fs' = [fs EXCEPT ![p] = f]
    /\ changes' = changes + 1
    /\ dirty' = dirty \cup {p}
    /\ observed' = {}
    /\ encoded' = {}
    /\ upserted' = {}
    /\ unflagged' = {}
    /\ flushed' = << >>
    /\ commit_calls' = 0
    /\ start' = NoStart
    /\ crashed' = NoCrash
    /\ UNCHANGED <<exclude_dirs, prog, out, scans, faults, configs, enc_failed,
                   pending, stable>>

\* What entering ensure_index(dir) does besides the store: the locals of
\* the scan and the history of the run.
enter_scan(dir, max_scans) ==
    /\ pc = "idle"
    /\ scans < max_scans
    /\ scans' = scans + 1
    /\ directory' = dir
    /\ images_processed' = 0
    /\ batch' = << >>
    /\ metas' = << >>
    /\ walk' = Walk(dir, exclude_dirs)
    /\ pc' = "walk"
    /\ observed' = {}
    /\ encoded' = {}
    /\ upserted' = {}
    /\ unflagged' = {}
    /\ flushed' = << >>
    /\ commit_calls' = 0
    /\ enc_failed' = {}
    /\ pending' = {}
    /\ start' = [store |-> db, rerun |-> stable /\ dir = directory,
                 failed |-> IF stable THEN enc_failed ELSE {}, changed |-> dirty,
                 recover |-> crashed.yes /\ dir = directory /\ enc_failed = {},
                 base |-> IF crashed.yes /\ dir = directory /\ enc_failed = {}
                          THEN crashed.base ELSE << >>]
    /\ crashed' = NoCrash
    /\ dirty' = {}
    /\ stable' = FALSE
    /\ UNCHANGED <<fs, exclude_dirs, dbc, out, changes, faults, configs>>

\* ensure_index without the flagging of main.py:85.
ensure_index_begin_no_flag(dir, max_scans) ==
    /\ enter_scan(dir, max_scans)
    /\ db' = db

\* ensure_index flagging every record of the store at main.py:85, not only
\* those under the directory.
ensure_index_begin_flag_all(dir, max_scans) ==
    /\ enter_scan(dir, max_scans)
    /\ db' = [p \in DOMAIN db |-> [db[p] EXCEPT !.deleted = TRUE]]

\* ensure_index up to the loop, main.py:83-89.
ensure_index_begin(dir, max_scans) ==
    /\ enter_scan(dir, max_scans)
    /\ db' = flag_images_in_a_dir_as_deleted(db, dir)

\* One kept file of the walk, main.py:96-120.
ensure_index_file ==
    /\ pc = "walk"
    /\ walk # << >>
    /\ LET filepath == Head(walk)
           readable == fs[filepath].kind # "nometa"
           commits == readable /\ commit_due(images_processed)
           unchanged == readable /\ is_unchanged(db, filepath)
           b == Append(batch, filepath)
           m == Append(metas, get_image_meta(filepath))
           flushes == readable /\ ~unchanged /\ batch_full(b)
           base == IF commits THEN {} ELSE pending
       IN  \E ok \in BOOLEAN :
             LET s == loop_body(Local, filepath, ok)
                 wrote == IF flushes THEN zipped_paths(b, db, s.db) ELSE {}
             IN  /\ flushes \/ ok
                 /\ ok \/ faults < MaxFaults
                 /\ faults' = IF ok THEN faults ELSE faults + 1
                 /\ db' = s.db
                 /\ dbc' = s.dbc
                 /\ images_processed' = s.images_processed
                 /\ batch' = s.batch
                 /\ metas' = s.metas
                 /\ observed' = observed \cup {filepath}
                 /\ unflagged' = IF unchanged THEN unflagged \cup {filepath} ELSE unflagged
                 /\ encoded' = IF flushes THEN encoded \cup Range(filtered_paths(b))
                               ELSE encoded
                 /\ upserted' = upserted \cup wrote
                 /\ enc_failed' = IF flushes /\ ~ok THEN enc_failed \cup Range(b)
                                  ELSE enc_failed
                 /\ flushed' = IF flushes THEN Append(flushed, b) ELSE flushed
                 /\ commit_calls' = IF commits THEN commit_calls + 1 ELSE commit_calls
                 /\ pending' = IF unchanged THEN base \cup {filepath} ELSE base \cup wrote
    /\ walk' = Tail(walk)
    /\ UNCHANGED <<fs, exclude_dirs, pc, directory, out, scans, changes, configs,
                   start, dirty, stable, crashed>>

\* The flush after the walk, main.py:122-123.
ensure_index_flush ==
    /\ pc = "walk"
    /\ walk = << >>
    /\ \E ok \in BOOLEAN :
         LET flushes == flush_due(batch)
             wrote == IF flushes THEN zipped_paths(batch, db, final_flush(Local, ok).db)
                      ELSE {}
         IN  /\ flushes \/ ok
             /\ ok \/ faults < MaxFaults
             /\ faults' = IF ok THEN faults ELSE faults + 1
             /\ db' = final_flush(Local, ok).db
             /\ encoded' = IF flushes THEN encoded \cup Range(filtered_paths(batch))
                           ELSE encoded
             /\ upserted' = upserted \cup wrote
             /\ enc_failed' = IF flushes /\ ~ok THEN enc_failed \cup Range(batch)
                              ELSE enc_failed
             /\ flushed' = IF flushes THEN Append(flushed, batch) ELSE flushed
             /\ pending' = pending \cup wrote
    /\ pc' = "commit"
    /\ UNCHANGED <<fs, exclude_dirs, dbc, directory, walk, images_processed, batch,
                   metas, out, scans, changes, configs, observed, unflagged,
                   commit_calls, start, dirty, stable, crashed>>

\* self._db.commit() and the return, main.py:125.
ensure_index_commit ==
    /\ pc = "commit"
    /\ dbc' = db
    /\ pending' = {}
    /\ pc' = "idle"
    /\ stable' = TRUE
    /\ UNCHANGED <<fs, exclude_dirs, db, directory, walk, images_processed, batch,
                   metas, out, count, run, start, dirty, crashed>>

\* The process dies during ensure_index: what was not committed is lost.
Crash ==
    /\ pc \in {"walk", "commit"}
    /\ faults < MaxFaults
    /\ faults' = faults + 1
    /\ db' = dbc
    /\ pending' = {}
    /\ pc' = "idle"
    /\ observed' = {}
    /\ encoded' = {}
    /\ upserted' = {}
    /\ unflagged' = {}
    /\ flushed' = << >>
    /\ commit_calls' = 0
    /\ start' = NoStart
    /\ crashed' = [yes |-> TRUE, base |-> IF start.recover THEN start.base ELSE start.store]
    /\ UNCHANGED <<fs, exclude_dirs, dbc, directory, walk, images_processed, batch,
                   metas, out, scans, changes, configs, enc_failed, dirty, stable>>

\* rclip.search(args.query, current_directory, args.top), main.py:171.
Search(dir, top_k) ==
    /\ pc = "idle"
    /\ \E ranking \in Rankings(Len(get_image_vectors_by_dir_path(db, dir))) :
         /\ result' = search(db, exclude_dirs, ranking, dir, top_k)
         /\ ranked' = sorted_paths(db, ranking, dir)
    /\ searched' = dir
    /\ top' = top_k
    /\ pc' = "searched"
    /\ UNCHANGED <<fs, exclude_dirs, db, dbc, directory, walk, images_processed,
                   batch, metas, count, hist>>

\* main returns; the next invocation starts from the store alone.
Exit ==
    /\ pc = "searched"
    /\ result' = << >>
    /\ searched' = << >>
    /\ top' = 0
    /\ ranked' = << >>
    /\ pc' = "idle"
    /\ UNCHANGED <<fs, exclude_dirs, db, dbc, directory, walk, images_processed,
                   batch, metas, count, hist>>

Next ==
    \/ \E arg \in ExcludeArgs : Configure(arg)
    \/ \E p \in AllPaths : \E f \in FileOptions(p) : FsChange(p, f, MaxScans, MaxFsChanges)
    \/ \E dir \in ScanDirs : ensure_index_begin(dir, MaxScans)
    \/ ensure_index_file
    \/ ensure_index_flush
    \/ ensure_index_commit
    \/ Crash

\* The scan alone: invocations of ensure_index, changes of the tree and of
\* the exclusion setting between them, crashes.
Spec == Init /\ [][Next]_vars

NextSearch ==
    \/ \E arg \in ExcludeArgs : Configure(arg)
    \/ \E p \in AllPaths : \E f \in FileOptions(p) :
            FsChange(p, f, MaxScansSearch, MaxFsChangesSearch)
    \/ \E dir \in SearchDirs : ensure_index_begin(dir, MaxScansSearch)
    \/ ensure_index_file
    \/ ensure_index_flush
    \/ ensure_index_commit
    \/ Crash
    \/ \E dir \in SearchDirs, top_k \in 1..MaxTopK : Search(dir, top_k)
    \/ Exit

\* Invocations of main: ensure_index (unless skipped), then search.
SpecSearch == Init /\ [][NextSearch]_vars

(***************************************************************************)
(* Properties                                                              *)
(***************************************************************************)
\* ensure_index has returned and nothing has changed since.
EndOfRun == pc = "idle" /\ stable /\ dirty = {}

\* The record the scan found for p matched the file on disk.
Matched(p) ==
    p \in DOMAIN start.store /\ is_image_meta_equal(start.store[p], get_image_meta(p))

\* C1 (as claimed): when ensure_index(dir) completes and is run again with
\* no change of the tree in between (and no encoding call fails in either
\* run), the second run leaves the store as the first left it, upserts no
\* record, and flags no record deleted that was not flagged before it.
C1_Idempotent ==
    (EndOfRun /\ start.rerun /\ start.changed = {} /\ start.failed = {} /\ enc_failed = {})
        => /\ db = start.store
           /\ upserted = {}
           /\ \A p \in DOMAIN start.store : ~start.store[p].deleted => ~db[p].deleted

\* C2 (as claimed): in every reachable state, a record that is not flagged
\* deleted holds the modified_at and size of the version of its own file
\* that its vector was computed from.
C2_MetadataFresh ==
    \A p \in DOMAIN db :
        ~db[p].deleted => db[p].vector = <<p, db[p].modified_at, db[p].size>>

\* C3 (as claimed): at the end of every ensure_index(dir) run, a record
\* under dir is flagged deleted iff its file was not observed by the walk.
C3_DeletedIffUnobserved ==
    EndOfRun =>
        \A p \in DOMAIN db :
            Under(directory, p) => (db[p].deleted <=> p \notin observed)

\* C3 (amended): at the end of every ensure_index(dir) run, a record under
\* dir is not flagged deleted iff the walk observed its file, the metadata
\* read succeeded, and either the record the scan found matched the
\* metadata or the file was decoded and the encoding call of its batch
\* succeeded.
C3_DeletedIffNotIndexed ==
    EndOfRun =>
        \A p \in DOMAIN db :
            Under(directory, p) =>
                (~db[p].deleted <=>
                    /\ p \in observed
                    /\ fs[p].kind # "nometa"
                    /\ \/ Matched(p)
                       \/ fs[p].kind = "ok" /\ p \notin enc_failed)

\* A run ends with a record under dir of a file the walk observed that is
\* still flagged deleted, next to one that is not.
C3_Witness ==
    /\ EndOfRun
    /\ \E p \in DOMAIN db : Under(directory, p) /\ p \in observed /\ db[p].deleted
    /\ \E p \in DOMAIN db : Under(directory, p) /\ p \in observed /\ ~db[p].deleted

\* The scan reran a completed scan after a change of the metadata of
\* exactly one file, q, which had a record and can still be read.
OneFileChanged(q) ==
    /\ EndOfRun
    /\ start.rerun
    /\ start.changed = {q}
    /\ q \in DOMAIN start.store
    /\ ~start.store[q].deleted
    /\ fs[q].kind = "ok"
    /\ start.store[q].vector # compute_image_feature(q)

SameEmbedding(r1, r2) ==
    /\ r1.vector = r2.vector
    /\ r1.modified_at = r2.modified_at
    /\ r1.size = r2.size

\* C4 (as claimed): when exactly one file's modified_at or size changes
\* after a completed scan and ensure_index is rerun (no encoding call
\* failing in either run), that file is the only one passed to the
\* encoding call and upserted, and every other record keeps its vector,
\* modified_at and size.
C4_OnlyChangedRecomputed ==
    \A q \in AllPaths :
        (OneFileChanged(q) /\ start.failed = {} /\ enc_failed = {})
            => /\ encoded = {q}
               /\ upserted = {q}
               /\ \A p \in DOMAIN start.store \ {q} :
                    SameEmbedding(db[p], start.store[p])

\* C5: when a file that has a record is removed from disk and
\* ensure_index is rerun over a directory that contains its path, the
\* record still exists at the end of the run, flagged deleted, with the
\* vector it had; and a search after that run returns no result with that
\* path, for any ranking and top_k.
C5_SoftDelete ==
    /\ EndOfRun =>
         \A p \in DOMAIN start.store :
            (Under(directory, p) /\ fs[p] = Absent)
                => /\ p \in DOMAIN db
                   /\ db[p].deleted
                   /\ db[p].vector = start.store[p].vector
    /\ (pc = "searched" /\ stable /\ dirty = {}) =>
         \A i \in 1..Len(result) :
            ~(Under(directory, result[i].filepath) /\ fs[result[i].filepath] = Absent)

\* A search over the scanned directory returns results after a run that
\* found the file of a live record removed.
C5_Witness ==
    /\ pc = "searched" /\ stable /\ dirty = {}
    /\ searched = directory
    /\ Len(result) > 0
    /\ \E p \in DOMAIN start.store :
        /\ ~start.store[p].deleted
        /\ Under(directory, p)
        /\ fs[p] = Absent
        /\ db[p].deleted

\* The file of a record flagged deleted is back on disk, readable, and the
\* walk of the run observed it.
Reappeared(p) ==
    /\ p \in DOMAIN start.store
    /\ start.store[p].deleted
    /\ p \in observed
    /\ fs[p].kind = "ok"

\* C6 (as claimed): when a file whose record is flagged deleted reappears
\* and ensure_index is run over it, then at the end of the run (a) if its
\* modified_at and size equal the stored ones, the flag is cleared, the
\* vector is the stored one and the file was not passed to the encoding
\* call; (b) if they differ (and the encoding call of its batch succeeds),
\* the file was re-embedded and its record holds the new modified_at, size
\* and vector, with deleted = false.
C6_Resurrection ==
    EndOfRun =>
        \A p \in AllPaths :
            Reappeared(p) =>
                /\ Matched(p) =>
                    /\ ~db[p].deleted
                    /\ SameEmbedding(db[p], start.store[p])
                    /\ p \notin encoded
                /\ (~Matched(p) /\ p \notin enc_failed) =>
                    /\ p \in encoded
                    /\ db[p] = [modified_at |-> fs[p].modified_at, size |-> fs[p].size,
                                vector |-> compute_image_feature(p), deleted |-> FALSE]

\* The scan mutates the store during the run or has returned with its
\* history intact.
InRun == pc \in {"walk", "commit"} \/ EndOfRun

\* A record as the scan found it, flagged deleted.
Flagged(r) == [r EXCEPT !.deleted = TRUE]

\* C7, first part: when the encoding call fails for a batch, no file of
\* that batch is upserted in that scan: a record it had stays flagged
\* deleted with the fields it had, a file without a record gets none; and
\* the scan goes on to the end of the walk.
BatchUntouched ==
    /\ InRun =>
         \A p \in enc_failed :
            /\ p \notin upserted
            /\ IF p \in DOMAIN start.store
               THEN p \in DOMAIN db /\ db[p] = Flagged(start.store[p])
               ELSE p \notin DOMAIN db
    /\ EndOfRun => observed = Range(Walk(directory, exclude_dirs))

\* The scan reran a completed scan of the same directory with nothing
\* changed on disk, and no encoding call of it failed.
Retried == EndOfRun /\ start.rerun /\ start.changed = {} /\ enc_failed = {}

\* C7 (as claimed): BatchUntouched, and a later scan in which encoding
\* succeeds and the files are unchanged on disk recomputes and upserts
\* every file of the failed batch.
C7_BatchRetried ==
    /\ BatchUntouched
    /\ Retried => \A p \in start.failed : p \in encoded /\ p \in upserted /\ ~db[p].deleted

\* C7 (amended): BatchUntouched, and a later scan in which encoding
\* succeeds and the files are unchanged on disk recomputes and upserts
\* every file of the failed batch that can be decoded.
C7_DecodableRetried ==
    /\ BatchUntouched
    /\ Retried =>
         \A p \in start.failed :
            fs[p].kind = "ok" => (p \in encoded /\ p \in upserted /\ ~db[p].deleted)

\* A rerun has upserted the files of a batch whose encoding call had
\* failed in the scan before.
C7_Witness ==
    /\ Retried
    /\ start.failed # {}
    /\ \A p \in start.failed : fs[p].kind = "ok" /\ p \in upserted
    /\ \E p \in start.failed : p \in DOMAIN start.store

\* C8 (as claimed): when an ensure_index(dir) run crashes at any point and
\* ensure_index(dir) is then run to completion with nothing changed on
\* disk (no encoding call failing in either), the store at the end equals
\* the store a single uninterrupted run from the store before the crashed
\* run would have left.
C8_RestartConverges ==
    (EndOfRun /\ start.recover /\ enc_failed = {})
        => db = ensure_index(start.base, directory, exclude_dirs)

\* C9 (as claimed): in every state of a scan, the files whose records were
\* written (upserted or unflagged) since the last commit, which a crash
\* now would lose, number at most DB_IMAGES_BEFORE_COMMIT.
C9_LossWindow == Cardinality(pending) <= DB_IMAGES_BEFORE_COMMIT

\* C9 (amended): in every state of a scan, the files whose records were
\* written (upserted or unflagged) since the last commit, which a crash
\* now would lose, number at most DB_IMAGES_BEFORE_COMMIT + BATCH_SIZE - 1;
\* a crash leaves the store as of the last commit.
C9_LossWindowWithBatch ==
    /\ Cardinality(pending) <= DB_IMAGES_BEFORE_COMMIT + BATCH_SIZE - 1
    /\ (pc = "idle" /\ crashed.yes) => db = dbc

\* More files than DB_IMAGES_BEFORE_COMMIT are written and uncommitted.
C9_Witness ==
    /\ pc \in {"walk", "commit"}
    /\ Cardinality(pending) > DB_IMAGES_BEFORE_COMMIT
    /\ db # dbc

\* p has a path segment equal to one of the names excluded under arg.
has_excluded_segment(arg, p) ==
    \E i \in 1..Len(p), k \in 1..Len(excluded_dirs(arg)) :
        LET nm == excluded_dirs(arg)[k]
            j == i + Len(nm) - 1
        IN  /\ i = 1 \/ p[i - 1] = "/"
            /\ j <= Len(p)
            /\ SubSeq(p, i, j) = nm
            /\ j = Len(p) \/ p[j + 1] = "/"

\* C10 (as claimed): a file whose path has a segment equal to an excluded
\* name, the scanned directory itself included, is never upserted or
\* unflagged by ensure_index and never returned by search.
C10_ExcludedNeverIndexed ==
    /\ \A p \in upserted \cup unflagged : ~has_excluded_segment(exclude_dirs, p)
    /\ pc = "searched" =>
         \A i \in 1..Len(result) : ~has_excluded_segment(exclude_dirs, result[i].filepath)

\* C11 (as claimed): for any store, ranking and top_k >= 1, search returns
\* exactly the first min(top_k, n) entries of the model's ranking restricted
\* to the paths with no segment equal to an excluded name (n the number of
\* such entries), in the order the model returned them, each with its own
\* path and score.
C11_OrderAndLimit ==
    pc = "searched" =>
        LET kept == SelectSeq(ranked,
                        LAMBDA e : ~has_excluded_segment(exclude_dirs, e.filepath))
        IN  result = SubSeq(kept, 1, Min(top, Len(kept)))

\* C12 (as claimed): a search in which every ranked path has a segment
\* equal to an excluded name, and so also a search over a directory with no
\* record that is not flagged deleted, returns the empty sequence.
C12_EmptyScope ==
    pc = "searched" =>
        ((\A k \in 1..Len(ranked) : has_excluded_segment(exclude_dirs, ranked[k].filepath))
            => result = << >>)

C14_RootFailurePropagates ==
    (pc = "idle" /\ stable) => DirExists(directory)

\* The paths the exclusion check is applied to: the roots of the walk
\* (main.py:91) and the stored file paths (main.py:133).
CheckedPaths == AllPaths \cup {Tree[i][1] : i \in 1..Len(Tree)}

\* C15 (as claimed): with the configured names being the user's list when
\* one is given and the three defaults otherwise, the exclusion check on a
\* path is true if and only if some segment of the path, at any position,
\* is exactly equal to a configured name.
C15_ExactSegment ==
    \A p \in CheckedPaths :
        exclude_dir_regex_match(exclude_dirs, p) <=> has_excluded_segment(exclude_dirs, p)

\* The periodic commits due for n counted files: one before the first and
\* one more after every DB_IMAGES_BEFORE_COMMIT of them.
CommitsFor(n) == (n + DB_IMAGES_BEFORE_COMMIT - 1) \div DB_IMAGES_BEFORE_COMMIT

\* C16 (as claimed): during ensure_index the periodic commit is called
\* once per DB_IMAGES_BEFORE_COMMIT files, where every kept file the walk
\* has visited counts, whatever its outcome.
C16_EveryFileCounts ==
    InRun => commit_calls = CommitsFor(Cardinality(observed))

\* C16 (amended): during ensure_index the periodic commit is called once
\* per DB_IMAGES_BEFORE_COMMIT files, where the kept files the walk has
\* visited and whose metadata could be read count, unchanged or stale; a
\* file whose metadata read failed is not counted.
C16_ReadableFilesCount ==
    InRun =>
        /\ images_processed = Cardinality({p \in observed : fs[p].kind # "nometa"})
        /\ commit_calls = CommitsFor(images_processed)

\* A second periodic commit has been taken in a scan that skipped a file
\* whose metadata could not be read and saw an unchanged and a stale one.
C16_Witness ==
    /\ pc = "walk"
    /\ commit_calls >= 2
    /\ \E p \in observed : fs[p].kind = "nometa"
    /\ unflagged # {}
    /\ upserted # {}

\* The files the running scan has passed to _index_files.
Submitted == UNION {Range(flushed[i]) : i \in 1..Len(flushed)}

\* The walk found p stale: its metadata was read and no record matched it.
Stale(p) == p \in observed /\ fs[p].kind # "nometa" /\ ~Matched(p)

\* C17: once the walk and the flush after it are over, and so whenever
\* ensure_index returns normally, every stale file collected during the
\* walk has been submitted in some flushed batch, none is left pending;
\* this is so before the last commit, and at the return no store write of
\* the run is left uncommitted, whatever was visited and whatever failed.
C17_FlushThenCommit ==
    /\ (pc = "commit" \/ EndOfRun) =>
         /\ \A p \in AllPaths : Stale(p) => p \in Submitted
         /\ Range(batch) \subseteq Submitted
    /\ EndOfRun => db = dbc /\ pending = {}

\* A scan has returned after flushing a last partial batch, with a failed
\* encoding call or an unreadable file on the way.
C17_Witness ==
    /\ EndOfRun
    /\ Len(flushed) >= 2
    /\ Len(flushed[Len(flushed)]) < BATCH_SIZE
    /\ enc_failed # {} \/ \E p \in observed : fs[p].kind # "ok"

\* The places of p in the flushed batches of the running scan.
PlacesOf(p) ==
    {<<i, k>> \in (1..Len(flushed)) \X (1..BATCH_SIZE) :
        k <= Len(flushed[i]) /\ flushed[i][k] = p}

\* C18: stale files are flushed as soon as the pending batch reaches
\* BATCH_SIZE: the pending batch holds fewer than BATCH_SIZE files between
\* two steps of the walk, every flushed batch holds between 1 and
\* BATCH_SIZE files (BATCH_SIZE but for the one of the final flush) and
\* passes at most BATCH_SIZE images to the encoding call, and each stale
\* file of the scan is in exactly one place: one flushed batch or, during
\* the walk, the pending batch.
C18_Batching ==
    /\ Len(batch) < BATCH_SIZE
    /\ \A i \in 1..Len(flushed) :
         /\ 1 <= Len(flushed[i]) /\ Len(flushed[i]) <= BATCH_SIZE
         /\ (i < Len(flushed) \/ pc = "walk") => Len(flushed[i]) = BATCH_SIZE
         /\ Len(filtered_paths(flushed[i])) <= BATCH_SIZE
    /\ InRun =>
         \A p \in AllPaths :
            LET held == Cardinality({k \in 1..Len(batch) : batch[k] = p})
            IN  /\ Cardinality(PlacesOf(p)) <= 1
                /\ ~Stale(p) => PlacesOf(p) = {}
                /\ (Stale(p) /\ pc = "walk") => Cardinality(PlacesOf(p)) + held = 1
                /\ (Stale(p) /\ pc # "walk") => Cardinality(PlacesOf(p)) = 1

\* A scan has returned after a flush of a full batch during the walk and
\* a final flush of a smaller one.
C18_Witness ==
    /\ EndOfRun
    /\ Len(flushed) >= 2
    /\ Len(flushed[1]) = BATCH_SIZE
    /\ Len(flushed[Len(flushed)]) < BATCH_SIZE
    /\ \A p \in observed : Stale(p) => Cardinality(PlacesOf(p)) = 1

\* C19: ensure_index(dir) changes only records whose path is under dir:
\* during the run and at its return every record outside dir (of a parent
\* or sibling directory too) is as the run found it, deleted flag,
\* metadata and vector, and every new record is under dir; and search
\* changes no record.
C19_ScopeFrame ==
    /\ [](InRun =>
            /\ \A p \in DOMAIN start.store :
                  ~Under(directory, p) => (p \in DOMAIN db /\ db[p] = start.store[p])
            /\ \A p \in DOMAIN db \ DOMAIN start.store : Under(directory, p))
    /\ [][pc' = "searched" => (db' = db /\ dbc' = dbc)]_vars

\* A search follows a scan of the nested directory r/s that flagged a
\* record under it and left a live record of the parent directory alone.
C19_Witness ==
    /\ pc = "searched" /\ stable /\ dirty = {}
    /\ directory = Dir_r_s
    /\ \E p \in DOMAIN db : ~Under(directory, p) /\ ~db[p].deleted
    /\ \E p \in DOMAIN db : Under(directory, p) /\ db[p].deleted

\* The files now under dir that match the image extension pattern and lie
\* in no directory with a segment equal to an excluded name.
ImagesUnder(dir) ==
    UNION {{join(Tree[i][1], nm) : nm \in
                {n \in Range(Tree[i][2]) :
                    /\ Tree[i][1] = dir \/ Under(dir, Tree[i][1])
                    /\ fs[join(Tree[i][1], n)] # Absent
                    /\ IMAGE_REGEX_match(n)
                    /\ ~has_excluded_segment(exclude_dirs, Tree[i][1])}} :
           i \in 1..Len(Tree)}

\* The run met no metadata, decode or encoding failure.
NoFailure ==
    /\ enc_failed = {}
    /\ \A p \in observed : fs[p].kind # "nometa"
    /\ \A p \in Submitted : fs[p].kind = "ok"

\* C20 (as claimed): after ensure_index(dir) completes with no metadata,
\* decode or encoding failure, the paths with a record under dir that is
\* not flagged deleted are the files now under dir that match the image
\* extension pattern and lie in no excluded directory, and search(dir)
\* with top_k at least their number returns exactly those paths, each
\* once.
C20_IndexMatchesFiles ==
    /\ (EndOfRun /\ NoFailure) =>
         {p \in DOMAIN db : Under(directory, p) /\ ~db[p].deleted} = ImagesUnder(directory)
    /\ (pc = "searched" /\ stable /\ dirty = {} /\ NoFailure /\ searched = directory
            /\ top >= Cardinality(ImagesUnder(directory))) =>
         /\ {result[i].filepath : i \in 1..Len(result)} = ImagesUnder(directory)
         /\ Len(result) = Cardinality(ImagesUnder(directory))

====
